---- MODULE Spec2Model ----
(***************************************************************************)
(* A model of topo_order_commits.py: the driver topo_order_commits and the *)
(* functions it calls (find_git_repo, get_branches, read_commit,           *)
(* build_commit_graph, sort, print_commits).                               *)
(*                                                                         *)
(* Strings are sequences of one-character strings, so that the substring   *)
(* test `"parent " in line`, the slice line[7:], the joins and the string  *)
(* comparisons are computed as the Python code computes them.              *)
(***************************************************************************)
EXTENDS Integers, Sequences, FiniteSets, TLC

VARIABLES
    cwd,            \* depth of the working directory (0 is the filesystem root)
    git_dirs,       \* depths of the directories on the path that hold a .git directory
    objects,        \* .git/objects: hash -> loose object
    refs,           \* .git/refs/heads: branch name -> hash
    pc,             \* position of the driver
    error,          \* the exception that ended the run ("" when none)
    branches,       \* dict returned by get_branches, in insertion order: <<name, hash>>
    branch_tips,    \* the caller's list; build_commit_graph's to_process is this same list
    graph,          \* build_commit_graph's dict, in insertion order: CommitNode records
    visited,        \* build_commit_graph's visited set
    hash_to_num_children, \* sort's counter table
    to_process,     \* sort's work queue
    sorted_commits, \* sort's result
    last_visited,   \* print_commits: the commit printed last
    pos,            \* print_commits: number of entries of sorted_commits printed
    output,         \* lines written to standard output by this invocation
    run,            \* number of the invocation of topo_order_commits
    prev_graph,     \* commit_graph of the previous invocation
    prev_sorted,    \* sorted_commit_hashes of the previous invocation
    reads,          \* the hashes passed to read_commit by this call of build_commit_graph
    calls,          \* number of calls of build_commit_graph with the list branch_tips
    earlier_graph   \* the graph returned by the previous call with that list

vars == <<cwd, git_dirs, objects, refs, pc, error, branches, branch_tips, graph,
          visited, hash_to_num_children, to_process, sorted_commits,
          last_visited, pos, output, run, prev_graph, prev_sorted, reads, calls,
          earlier_graph>>

----------------------------------------------------------------------------
(* Bounds of the model *)

NumHashes == 3      \* commit hashes that exist
MaxEdges == 3       \* "parent" lines in the whole object store
NumBranches == 2    \* branch names that may exist
ManyBranches == 3   \* branch names that may exist in the specification of the output lines
MaxDepth == 1       \* depth of the deepest working directory
MaxRuns == 2        \* invocations of topo_order_commits in one process
MaxCalls == 2       \* calls of build_commit_graph with one list
NumMarkerHashes == 4  \* commit hashes of the repositories of SpecMarkers

----------------------------------------------------------------------------
(* Strings *)

\* The characters of the model in code-point order (Python compares str by code point).
Alphabet == <<" ", "1", "2", "3", "4", "5", "=", "a", "b", "c", "e", "m", "n",
              "p", "r", "t", "x">>

Ord(c) == CHOOSE i \in 1..Len(Alphabet) : Alphabet[i] = c

\* s < t for Python strings
StrLess(s, t) ==
    \E k \in 0..Len(s) :
        /\ k <= Len(t)
        /\ \A i \in 1..k : s[i] = t[i]
        /\ \/ k = Len(s) /\ k < Len(t)
           \/ k < Len(s) /\ k < Len(t) /\ Ord(s[k + 1]) < Ord(t[k + 1])

\* sub in s
Contains(s, sub) ==
    \E i \in 0..(Len(s) - Len(sub)) : SubSeq(s, i + 1, i + Len(sub)) = sub

\* s[n:]
SliceFrom(s, n) == SubSeq(s, n + 1, Len(s))

RECURSIVE Join(_, _)
\* sep.join(strs)
Join(sep, strs) ==
    IF strs = <<>> THEN <<>>
    ELSE IF Len(strs) = 1 THEN strs[1]
    ELSE strs[1] \o sep \o Join(sep, Tail(strs))

SeqsUpTo(S, n) == UNION {[1..k -> S] : k \in 0..n}

\* the orders in which the elements of a finite set can be listed
Orders(S) ==
    {f \in [1..Cardinality(S) -> S] : \A i, j \in 1..Cardinality(S) : f[i] = f[j] => i = j}

Range(f) == {f[i] : i \in DOMAIN f}

----------------------------------------------------------------------------
(* The repository on disk *)

HashChars == <<"1", "2", "3", "4", "5">>
Hashes == {<<HashChars[i]>> : i \in 1..NumHashes}
MarkerHashes == {<<HashChars[i]>> : i \in 1..NumMarkerHashes}

BranchNameList == << <<"b">>, <<"a">>, <<"a", "b">>, <<"c">> >>
BranchNames(n) == {BranchNameList[i] : i \in 1..n}

ParentToken == <<"p", "a", "r", "e", "n", "t", " ">>

\* lines of a commit object
TreeLine == <<"t", "r", "e", "e", " ", "x">>
ParentLine(h) == ParentToken \o h
\* a message line that mentions a parent without being a parent header
MessageLine == <<"n", "a", "m", "e", " ">> \o ParentToken \o <<"x">>
PlainMessageLine == <<"m">>

\* The "parent" lines of commit c, in the order they were written.
RECURSIVE ParentLinesOf(_, _)
ParentLinesOf(c, edges) ==
    IF edges = <<>> THEN <<>>
    ELSE (IF edges[1][1] = c THEN <<ParentLine(edges[1][2])>> ELSE <<>>)
         \o ParentLinesOf(c, Tail(edges))

\* An object of the store may be irregular: absent, not UTF-8 text, or a commit
\* whose message mentions "parent ".
Regular == <<"none", <<>> >>
Irregularities == {Regular} \cup ({"missing", "binary", "message"} \X Hashes)

ObjectStoreOver(hashes, edges, irr) ==
    [h \in hashes \ (IF irr[1] = "missing" THEN {irr[2]} ELSE {}) |->
        IF irr = <<"binary", h>>
        THEN [utf8 |-> FALSE, lines |-> <<>>]
        ELSE [utf8 |-> TRUE,
              lines |-> <<TreeLine>> \o ParentLinesOf(h, edges)
                        \o <<IF irr = <<"message", h>> THEN MessageLine
                             ELSE PlainMessageLine>>]]

ObjectStore(edges, irr) == ObjectStoreOver(Hashes, edges, irr)

RefSetsOver(hashes, n) == UNION {[names -> hashes] : names \in SUBSET BranchNames(n)}

RefSets(n) == RefSetsOver(Hashes, n)

----------------------------------------------------------------------------
(* class CommitNode *)

CommitNode(commit_hash) == [commit_hash |-> commit_hash, parents |-> {}, children |-> {}]

\* graph.keys()
Keys(g) == {g[i].commit_hash : i \in 1..Len(g)}

\* graph[h]
IndexOf(g, h) == CHOOSE i \in 1..Len(g) : g[i].commit_hash = h
Node(g, h) == g[IndexOf(g, h)]

\* if h not in graph: graph[h] = CommitNode(h)
EnsureNode(g, h) == IF h \in Keys(g) THEN g ELSE Append(g, CommitNode(h))

\* Link without the back edge
LinkOneWay(g, curr, parent) ==
    [g EXCEPT ![IndexOf(g, curr)].parents = @ \cup {parent}]

\* curr_node.parents.add(parent_node); parent_node.children.add(curr_node)
Link(g, curr, parent) ==
    LET g1 == [g EXCEPT ![IndexOf(g, curr)].parents = @ \cup {parent}]
    IN  [g1 EXCEPT ![IndexOf(g1, parent)].children = @ \cup {curr}]

----------------------------------------------------------------------------
(* find_git_repo, read_commit *)

RECURSIVE find_git_repo(_, _)
\* walks up from dir until the root; the root itself is never examined
find_git_repo(dir, gits) ==
    IF dir = 0 THEN -1
    ELSE IF dir \in gits THEN dir
    ELSE find_git_repo(dir - 1, gits)

\* read_commit taking an unreadable object for an empty one
read_commit_lenient(hash) ==
    IF hash \notin DOMAIN objects \/ ~objects[hash].utf8
    THEN [err |-> "", lines |-> <<>>]
    ELSE [err |-> "", lines |-> objects[hash].lines]

\* read_commit(hash).decode().splitlines(): the lines, or the exception raised
read_commit(hash) ==
    IF hash \notin DOMAIN objects THEN [err |-> "OSError", lines |-> <<>>]
    ELSE IF ~objects[hash].utf8 THEN [err |-> "UnicodeDecodeError", lines |-> <<>>]
    ELSE [err |-> "", lines |-> objects[hash].lines]

----------------------------------------------------------------------------
(* build_commit_graph *)

\* if "parent " in line
IsParentLine(line) == Contains(line, ParentToken)

\* AlreadyVisited never skipping
AlreadyVisitedNever(curr_hash, vis) == FALSE

\* if curr_hash in visited: continue
AlreadyVisited(curr_hash, vis) == curr_hash \in vis

\* parent_hash = line[7:]
ParentHash(line) == SliceFrom(line, 7)

\* ProcessLines leaving the loop after the first parent
ProcessLinesFirstParent(lines, curr_hash, queue, g, vis) ==
    LET found == SelectSeq(lines, IsParentLine)
    IN  IF found = <<>> THEN [queue |-> queue, graph |-> g]
        ELSE LET parent_hash == ParentHash(found[1])
                 q1 == IF parent_hash \notin vis THEN Append(queue, parent_hash) ELSE queue
                 g1 == EnsureNode(g, parent_hash)
             IN  [queue |-> q1, graph |-> Link(g1, curr_hash, parent_hash)]

RECURSIVE ProcessLines(_, _, _, _, _)
\* the for loop over commit_content: returns the queue and the graph
ProcessLines(lines, curr_hash, queue, g, vis) ==
    IF lines = <<>> THEN [queue |-> queue, graph |-> g]
    ELSE IF IsParentLine(lines[1])
    THEN LET parent_hash == ParentHash(lines[1])
             q1 == IF parent_hash \notin vis THEN Append(queue, parent_hash) ELSE queue
             g1 == EnsureNode(g, parent_hash)
         IN  ProcessLines(Tail(lines), curr_hash, q1, Link(g1, curr_hash, parent_hash), vis)
    ELSE ProcessLines(Tail(lines), curr_hash, queue, g, vis)

----------------------------------------------------------------------------
(* sort *)

\* InitialCounts recording only whether a node has children
InitialCountsFlag(g) == [h \in Keys(g) |-> IF Node(g, h).children = {} THEN 0 ELSE 1]

\* hash_to_num_children[key] = len(value.children), for every item of the graph
InitialCounts(g) == [h \in Keys(g) |-> Cardinality(Node(g, h).children)]

\* Childless not counting a node as its own child
ChildlessButSelf(g) ==
    LET nodes == SelectSeq(g, LAMBDA node : node.children \subseteq {node.commit_hash})
    IN  [i \in 1..Len(nodes) |-> nodes[i].commit_hash]

\* [node for node in graph.values() if not node.children]
Childless(g) ==
    LET nodes == SelectSeq(g, LAMBDA node : node.children = {})
    IN  [i \in 1..Len(nodes) |-> nodes[i].commit_hash]

\* sorted_parents iterating the set as it comes
sorted_parents_any(parents) == Orders(parents)

\* sorted(curr.parents): CommitNode.__lt__ compares the hashes
sorted_parents(parents) ==
    {o \in Orders(parents) : \A i, j \in 1..Len(o) : i < j => StrLess(o[i], o[j])}

\* GraphAfterVisit taking the emitted node out of its parents' children
GraphAfterVisitDetaching(g, curr) ==
    [i \in 1..Len(g) |->
        IF g[i].commit_hash \in Node(g, curr).parents
        THEN [g[i] EXCEPT !.children = @ \ {curr}]
        ELSE g[i]]

\* the graph after one iteration of the while loop: the iteration reads
\* graph[curr] and curr.parents and assigns to sorted_commits,
\* hash_to_num_children and to_process alone
GraphAfterVisit(g, curr) == g

RECURSIVE DecrementParentsFront(_, _, _)
\* DecrementParents putting a ready parent at the front of the queue
DecrementParentsFront(ps, counts, queue) ==
    IF ps = <<>> THEN [counts |-> counts, queue |-> queue]
    ELSE LET p == ps[1]
             c1 == [counts EXCEPT ![p] = @ - 1]
         IN  DecrementParentsFront(Tail(ps), c1,
                                   IF c1[p] = 0 THEN <<p>> \o queue ELSE queue)

RECURSIVE DecrementParents(_, _, _)
\* the for loop over the parents: returns the counter table and the queue
DecrementParents(ps, counts, queue) ==
    IF ps = <<>> THEN [counts |-> counts, queue |-> queue]
    ELSE LET p == ps[1]
             c1 == [counts EXCEPT ![p] = @ - 1]
         IN  DecrementParents(Tail(ps), c1,
                              IF c1[p] = 0 THEN Append(queue, p) ELSE queue)

----------------------------------------------------------------------------
(* print_commits *)

RECURSIVE InsertName(_, _)
InsertName(name, names) ==
    IF names = <<>> THEN <<name>>
    ELSE IF StrLess(name, names[1]) THEN <<name>> \o names
    ELSE <<names[1]>> \o InsertName(name, Tail(names))

\* SortNames leaving the names in the order of the dict
SortNamesUnsorted(names) == names

RECURSIVE SortNames(_)
\* list.sort() on a list of str
SortNames(names) ==
    IF names = <<>> THEN <<>> ELSE InsertName(names[1], SortNames(Tail(names)))

\* [key for key, value in branches.items() if value == commit_hash]
AssocBranches(commit_hash, brs) ==
    LET items == SelectSeq(brs, LAMBDA item : item[2] = commit_hash)
    IN  [i \in 1..Len(items) |-> items[i][1]]

\* first_output, the line printed for sorted_commits[0]
FirstOutput(commits, brs) ==
    LET assoc_branches_1 == SortNames(AssocBranches(commits[1], brs))
    IN  IF assoc_branches_1 # <<>>
        THEN commits[1] \o <<" ">> \o Join(<<" ">>, assoc_branches_1)
        ELSE commits[1]

\* output, the line printed for a commit in the loop
CommitLine(commit_hash, brs) ==
    LET assoc_branches == SortNames(AssocBranches(commit_hash, brs))
    IN  IF assoc_branches # <<>>
        THEN commit_hash \o <<" ">> \o Join(<<" ">>, assoc_branches)
        ELSE commit_hash

\* StartsNewRun looking at the children of the commit printed last
StartsNewRunChildren(g, last, commit) == commit \notin Node(g, last).children

\* if commit not in last_visited.parents
StartsNewRun(g, last, commit) == commit \notin Node(g, last).parents

\* MarkerBlocks listing the parents of the commit and the children of the
\* commit printed last
MarkerBlocksSwapped(g, last, commit) ==
    {<<Join(<<" ">>, ps) \o <<"=">>, <<>>, <<"=">> \o Join(<<" ">>, cs)>> :
        ps \in Orders(Node(g, commit).parents), cs \in Orders(Node(g, last).children)}

\* the sticky end, the empty line and the sticky start; a set is iterated in an
\* order the program does not choose
MarkerBlocks(g, last, commit) ==
    {<<Join(<<" ">>, ps) \o <<"=">>, <<>>, <<"=">> \o Join(<<" ">>, cs)>> :
        ps \in Orders(Node(g, last).parents), cs \in Orders(Node(g, commit).children)}

----------------------------------------------------------------------------
(* The driver, topo_order_commits *)

\* The state when topo_order_commits is first called, for a repository whose
\* commits are among hashes, whose object store has one of the irregularities
\* irrs and which has at most n branches.
InitOver(hashes, irrs, n) ==
    /\ cwd \in 0..MaxDepth
    /\ git_dirs \in {{}} \cup {{d} : d \in 0..MaxDepth}
    /\ IF find_git_repo(cwd, git_dirs) = -1
       THEN objects = << >> /\ refs = << >>
       ELSE /\ \E edges \in SeqsUpTo(hashes \X hashes, MaxEdges), irr \in irrs :
                 objects = ObjectStoreOver(hashes, edges, irr)
            /\ refs \in RefSetsOver(hashes, n)
    /\ pc = "start"
    /\ error = ""
    /\ branches = <<>>
    /\ branch_tips = <<>>
    /\ graph = <<>>
    /\ visited = {}
    /\ hash_to_num_children = << >>
    /\ to_process = <<>>
    /\ sorted_commits = <<>>
    /\ last_visited = <<>>
    /\ pos = 0
    /\ output = <<>>
    /\ run = 1
    /\ prev_graph = <<>>
    /\ prev_sorted = <<>>
    /\ reads = <<>>
    /\ calls = 0
    /\ earlier_graph = <<>>

InitWith(irrs, n) == InitOver(Hashes, irrs, n)

\* a repository in which every object is a readable commit
Init == InitWith({Regular}, NumBranches)

\* a repository in which at most one object is irregular
InitIrregular == InitWith(Irregularities, NumBranches)

\* a repository in which every object is a readable commit, with more branches
InitBranches == InitWith({Regular}, ManyBranches)

NotInsideMessage == <<"n", "a", "r", "e", "p", "a">>

\* Step 1, no repository: the message is printed, then os.chdir(-1) raises
NoRepo ==
    /\ pc = "start"
    /\ find_git_repo(cwd, git_dirs) = -1
    /\ output' = Append(output, NotInsideMessage)
    /\ pc' = "crashed"
    /\ error' = "OSError"
    /\ UNCHANGED <<run, prev_graph, prev_sorted, reads, calls, earlier_graph>>
    /\ UNCHANGED <<cwd, git_dirs, objects, refs, branches, branch_tips, graph, visited,
                   hash_to_num_children, to_process, sorted_commits, last_visited, pos>>

\* Step 1, repository found: os.chdir(git_repo)
EnterRepo ==
    /\ pc = "start"
    /\ find_git_repo(cwd, git_dirs) # -1
    /\ cwd' = find_git_repo(cwd, git_dirs)
    /\ pc' = "get_branches"
    /\ UNCHANGED <<run, prev_graph, prev_sorted, reads, calls, earlier_graph>>
    /\ UNCHANGED <<git_dirs, objects, refs, error, branches, branch_tips, graph, visited,
                   hash_to_num_children, to_process, sorted_commits, last_visited, pos,
                   output>>

\* Steps 2 and 3 up to the call: get_branches() in the order os.walk lists the
\* files, branch_tips = list(branches.values()), and the locals of
\* build_commit_graph
GetBranches ==
    /\ pc = "get_branches"
    /\ \E order \in Orders(DOMAIN refs) :
          /\ branches' = [i \in 1..Len(order) |-> <<order[i], refs[order[i]]>>]
          /\ branch_tips' = [i \in 1..Len(order) |-> refs[order[i]]]
    /\ graph' = <<>>
    /\ visited' = {}
    /\ reads' = <<>>
    /\ calls' = 1
    /\ earlier_graph' = <<>>
    /\ pc' = "build"
    /\ UNCHANGED <<run, prev_graph, prev_sorted>>
    /\ UNCHANGED <<cwd, git_dirs, objects, refs, error, hash_to_num_children, to_process,
                   sorted_commits, last_visited, pos, output>>

\* one iteration of build_commit_graph's while loop
BuildStep ==
    /\ pc = "build"
    /\ branch_tips # <<>>
    /\ LET curr_hash == Head(branch_tips)
           rest == Tail(branch_tips)
       IN  IF AlreadyVisited(curr_hash, visited)
           THEN /\ branch_tips' = rest
                /\ UNCHANGED <<graph, visited, reads, pc, error>>
           ELSE LET g1 == EnsureNode(graph, curr_hash)
                    commit_content == read_commit(curr_hash)
                    vis == visited \cup {curr_hash}
                IN  /\ visited' = vis
                    /\ reads' = Append(reads, curr_hash)
                    /\ IF commit_content.err # ""
                       THEN /\ branch_tips' = rest
                            /\ graph' = g1
                            /\ pc' = "crashed"
                            /\ error' = commit_content.err
                       ELSE LET r == ProcessLines(commit_content.lines, curr_hash,
                                                  rest, g1, vis)
                            IN  /\ branch_tips' = r.queue
                                /\ graph' = r.graph
                                /\ UNCHANGED <<pc, error>>
    /\ UNCHANGED <<run, prev_graph, prev_sorted, calls, earlier_graph>>
    /\ UNCHANGED <<cwd, git_dirs, objects, refs, branches, hash_to_num_children,
                   to_process, sorted_commits, last_visited, pos, output>>

\* build_commit_graph returns (Step 3); sort is called (Step 4) and sets up
\* its counter table and its queue
BuildReturn ==
    /\ pc = "build"
    /\ branch_tips = <<>>
    /\ hash_to_num_children' = InitialCounts(graph)
    /\ to_process' = Childless(graph)
    /\ sorted_commits' = <<>>
    /\ pc' = "sort"
    /\ UNCHANGED <<run, prev_graph, prev_sorted, reads, calls, earlier_graph>>
    /\ UNCHANGED <<cwd, git_dirs, objects, refs, error, branches, branch_tips, graph,
                   visited, last_visited, pos, output>>

\* one iteration of sort's while loop
SortStep ==
    /\ pc = "sort"
    /\ to_process # <<>>
    /\ LET curr == Head(to_process)
       IN  /\ sorted_commits' = Append(sorted_commits, curr)
           /\ \E ps \in sorted_parents(Node(graph, curr).parents) :
                 LET r == DecrementParents(ps, hash_to_num_children, Tail(to_process))
                 IN  /\ hash_to_num_children' = r.counts
                     /\ to_process' = r.queue
           /\ graph' = GraphAfterVisit(graph, curr)
    /\ UNCHANGED <<run, prev_graph, prev_sorted, reads, calls, earlier_graph>>
    /\ UNCHANGED <<cwd, git_dirs, objects, refs, pc, error, branches, branch_tips,
                   visited, last_visited, pos, output>>

\* sort returns; sorted_commits = [commit_graph[c] for c in sorted_commit_hashes]
\* and print_commits is called (Step 5)
SortReturn ==
    /\ pc = "sort"
    /\ to_process = <<>>
    /\ pc' = "print"
    /\ pos' = 0
    /\ UNCHANGED <<run, prev_graph, prev_sorted, reads, calls, earlier_graph>>
    /\ UNCHANGED <<cwd, git_dirs, objects, refs, error, branches, branch_tips, graph,
                   visited, hash_to_num_children, to_process, sorted_commits,
                   last_visited, output>>

\* print_commits up to its loop: sorted_commits[0] raises IndexError on an empty list
PrintFirst ==
    /\ pc = "print"
    /\ pos = 0
    /\ IF sorted_commits = <<>>
       THEN /\ pc' = "crashed"
            /\ error' = "IndexError"
            /\ UNCHANGED <<last_visited, pos, output>>
       ELSE /\ last_visited' = sorted_commits[1]
            /\ output' = Append(output, FirstOutput(sorted_commits, branches))
            /\ pos' = 1
            /\ UNCHANGED <<pc, error>>
    /\ UNCHANGED <<run, prev_graph, prev_sorted, reads, calls, earlier_graph>>
    /\ UNCHANGED <<cwd, git_dirs, objects, refs, branches, branch_tips, graph, visited,
                   hash_to_num_children, to_process, sorted_commits>>

\* one iteration of print_commits' for loop
PrintNext ==
    /\ pc = "print"
    /\ pos >= 1
    /\ pos < Len(sorted_commits)
    /\ LET commit == sorted_commits[pos + 1]
       IN  /\ IF StartsNewRun(graph, last_visited, commit)
              THEN \E block \in MarkerBlocks(graph, last_visited, commit) :
                      output' = output \o block \o <<CommitLine(commit, branches)>>
              ELSE output' = Append(output, CommitLine(commit, branches))
           /\ last_visited' = commit
    /\ pos' = pos + 1
    /\ UNCHANGED <<run, prev_graph, prev_sorted, reads, calls, earlier_graph>>
    /\ UNCHANGED <<cwd, git_dirs, objects, refs, pc, error, branches, branch_tips, graph,
                   visited, hash_to_num_children, to_process, sorted_commits>>

\* print_commits and topo_order_commits return
PrintReturn ==
    /\ pc = "print"
    /\ pos >= 1
    /\ pos = Len(sorted_commits)
    /\ pc' = "done"
    /\ UNCHANGED <<run, prev_graph, prev_sorted, reads, calls, earlier_graph>>
    /\ UNCHANGED <<cwd, git_dirs, objects, refs, error, branches, branch_tips, graph,
                   visited, hash_to_num_children, to_process, sorted_commits,
                   last_visited, pos, output>>

\* topo_order_commits is called again in the same process (the script imported
\* as a module): the working directory is the one the first call changed to
Reinvoke ==
    /\ pc = "done"
    /\ run < MaxRuns
    /\ run' = run + 1
    /\ prev_graph' = graph
    /\ prev_sorted' = sorted_commits
    /\ pc' = "start"
    /\ output' = <<>>
    /\ UNCHANGED <<cwd, git_dirs, objects, refs, error, branches, branch_tips, graph,
                   visited, hash_to_num_children, to_process, sorted_commits,
                   last_visited, pos, reads, calls, earlier_graph>>

\* build_commit_graph has returned and its caller calls it again with the list
\* it passed before
BuildAgain ==
    /\ pc = "build"
    /\ branch_tips = <<>>
    /\ calls >= 1
    /\ calls < MaxCalls
    /\ calls' = calls + 1
    /\ earlier_graph' = graph
    /\ graph' = <<>>
    /\ visited' = {}
    /\ reads' = <<>>
    /\ UNCHANGED <<cwd, git_dirs, objects, refs, pc, error, branches, branch_tips,
                   hash_to_num_children, to_process, sorted_commits, last_visited, pos,
                   output, run, prev_graph, prev_sorted>>

Next ==
    \/ NoRepo
    \/ EnterRepo
    \/ GetBranches
    \/ BuildStep
    \/ BuildReturn
    \/ SortStep
    \/ SortReturn
    \/ PrintFirst
    \/ PrintNext
    \/ PrintReturn

NextAgain ==
    \/ Next
    \/ Reinvoke

\* one invocation on a well-formed repository
Spec == Init /\ [][Next]_vars

\* one invocation on a repository that may hold an irregular object
SpecIrregular == InitIrregular /\ [][Next]_vars

\* one invocation on a well-formed repository with more branches
SpecBranches == InitBranches /\ [][Next]_vars

\* up to MaxRuns invocations on a well-formed repository
SpecAgain == Init /\ [][NextAgain]_vars

\* a well-formed repository with NumMarkerHashes commits
InitMarkers == InitOver(MarkerHashes, {Regular}, NumBranches)

SpecMarkers == InitMarkers /\ [][Next]_vars

NextRebuild ==
    \/ Next
    \/ BuildAgain

\* one invocation that calls build_commit_graph up to MaxCalls times
SpecRebuild == Init /\ [][NextRebuild]_vars

----------------------------------------------------------------------------
(* Vocabulary of the properties *)

\* build_commit_graph has returned in this invocation
BuildDone == pc \in {"sort", "print", "done"} \/ (pc = "crashed" /\ error = "IndexError")

\* sort has returned in this invocation
SortDone == pc \in {"print", "done"} \/ (pc = "crashed" /\ error = "IndexError")

\* s begins with prefix
StartsWith(s, prefix) == Len(s) >= Len(prefix) /\ SubSeq(s, 1, Len(prefix)) = prefix

\* the parent links of the object store: the lines of a readable commit that
\* begin with "parent " name its parents
ParentLinks(h) ==
    IF h \in DOMAIN objects /\ objects[h].utf8
    THEN {SliceFrom(objects[h].lines[i], 7) :
            i \in {j \in 1..Len(objects[h].lines) :
                     StartsWith(objects[h].lines[j], ParentToken)}}
    ELSE {}

RECURSIVE ReachableFrom(_, _)
\* the hashes reached from S by following zero or more parent links
ReachableFrom(S, n) ==
    IF n = 0 THEN S
    ELSE ReachableFrom(S \cup UNION {ParentLinks(h) : h \in S}, n - 1)

TipSet == {branches[i][2] : i \in 1..Len(branches)}

RECURSIVE AncestorsIn(_, _, _)
\* the nodes reached from S by following one or more parent edges of graph g
AncestorsIn(g, S, n) ==
    LET up == UNION {Node(g, h).parents : h \in S \cap Keys(g)}
    IN  IF n = 0 THEN {} ELSE up \cup AncestorsIn(g, up, n - 1)

Acyclic(g) == \A h \in Keys(g) : h \notin AncestorsIn(g, {h}, Len(g))

\* position of hash h in sequence s (0 when absent)
PosIn(s, h) == IF \E i \in 1..Len(s) : s[i] = h
               THEN CHOOSE i \in 1..Len(s) : s[i] = h ELSE 0

NoDuplicates(s) == \A i, j \in 1..Len(s) : s[i] = s[j] => i = j

----------------------------------------------------------------------------
(* C1 *)

\* C1: while sort runs, a hash is appended only after all of its children and
\* never twice; when sort has returned on an acyclic graph, its result holds
\* every hash of the graph exactly once and every child stands before each of
\* its parents.
C1_ChildrenBeforeParents ==
    /\ pc = "sort" \/ SortDone =>
          /\ NoDuplicates(sorted_commits)
          /\ \A i \in 1..Len(sorted_commits) :
                \A c \in Node(graph, sorted_commits[i]).children :
                    PosIn(sorted_commits, c) \in 1..(i - 1)
    /\ SortDone /\ Acyclic(graph) =>
          /\ Range(sorted_commits) = Keys(graph)
          /\ Len(sorted_commits) = Len(graph)
          /\ \A child \in Keys(graph) : \A parent \in Node(graph, child).parents :
                PosIn(sorted_commits, child) < PosIn(sorted_commits, parent)

\* a merge whose parent has a second child has been sorted
C1_Witness ==
    /\ SortDone
    /\ Acyclic(graph)
    /\ Len(sorted_commits) = 3
    /\ \E m \in Keys(graph) : \E p \in Node(graph, m).parents :
          /\ Cardinality(Node(graph, m).parents) = 2
          /\ Cardinality(Node(graph, p).children) = 2

----------------------------------------------------------------------------
(* C2 *)

\* C2: when build_commit_graph has returned, the keys of the graph are exactly
\* the hashes reachable from the tips over parent links, and no hash has two
\* nodes.
C2_GraphIsReachableSet ==
    BuildDone =>
        /\ Keys(graph) = ReachableFrom(TipSet, NumHashes)
        /\ Len(graph) = Cardinality(Keys(graph))

\* a graph was returned for two tips, one the parent of the other, and a third
\* commit of the store is left out
C2_Witness ==
    /\ BuildDone
    /\ Len(branches) = 2
    /\ Len(graph) = 2
    /\ \E h \in Keys(graph) : Cardinality(Node(graph, h).children) = 1
    /\ Cardinality(DOMAIN objects) = NumHashes

----------------------------------------------------------------------------
(* C3 *)

\* C3: at the end of every iteration of the builder's loop and in the returned
\* graph, B is a parent of A exactly when A is a child of B, and every edge
\* ends at a node of the graph.
C3_EdgeSymmetry ==
    /\ \A a \in Keys(graph) : \A b \in Keys(graph) :
          b \in Node(graph, a).parents <=> a \in Node(graph, b).children
    /\ \A a \in Keys(graph) :
          Node(graph, a).parents \cup Node(graph, a).children \subseteq Keys(graph)

\* the builder has linked a merge commit to both of its parents
C3_Witness ==
    /\ pc = "build"
    /\ \E m \in Keys(graph) :
          /\ Cardinality(Node(graph, m).parents) = 2
          /\ \A p \in Node(graph, m).parents : m \in Node(graph, p).children

----------------------------------------------------------------------------
(* Reading the output *)

\* print_commits has printed at least its first line
Printing == pc \in {"print", "done"} /\ pos >= 1

IsStickyEnd(line) == line # <<>> /\ line[Len(line)] = "="
IsStickyStart(line) == line # <<>> /\ line[1] = "="
IsCommitLine(line) == line # <<>> /\ ~IsStickyEnd(line) /\ ~IsStickyStart(line)

\* the indices of the commit lines of the output, ascending
CommitLineIndices ==
    SelectSeq([i \in 1..Len(output) |-> i], LAMBDA i : IsCommitLine(output[i]))

\* lines i+1..i+3 of the output are a marker block
MarkerBlockAfter(i) ==
    /\ i + 3 <= Len(output)
    /\ IsStickyEnd(output[i + 1])
    /\ output[i + 2] = <<>>
    /\ IsStickyStart(output[i + 3])

\* the number of marker blocks of the output (each holds the only kind of empty line)
MarkerCount == Cardinality({i \in 1..Len(output) : output[i] = <<>>})

----------------------------------------------------------------------------
(* C4 *)

\* C4: the k-th commit line belongs to the k-th sorted commit; the first line
\* of the output is a commit line; between consecutive commit lines there is
\* nothing when the second commit is a direct parent of the first and exactly
\* one marker block when it is not.
C4_MarkerIffNotParent ==
    Printing =>
        LET idx == CommitLineIndices
        IN  /\ Len(idx) = pos
            /\ idx[1] = 1
            /\ idx[pos] = Len(output)
            /\ \A k \in 1..pos : StartsWith(output[idx[k]], sorted_commits[k])
            /\ \A k \in 1..(pos - 1) :
                  IF sorted_commits[k + 1] \in ParentLinks(sorted_commits[k])
                  THEN idx[k + 1] = idx[k] + 1
                  ELSE idx[k + 1] = idx[k] + 4 /\ MarkerBlockAfter(idx[k])

\* three commits printed: a marker block between the first two, none between
\* the last two
C4_Witness ==
    /\ pc = "done"
    /\ pos = 3
    /\ Len(output) = 6
    /\ MarkerBlockAfter(1)
    /\ sorted_commits[3] \in ParentLinks(sorted_commits[2])

----------------------------------------------------------------------------
(* C5 *)

\* the graph is two disjoint linear chains, each headed by one of two tips
TwoChains ==
    /\ Len(branches) = 2
    /\ branches[1][2] # branches[2][2]
    /\ Acyclic(graph)
    /\ \A h \in Keys(graph) :
          /\ Cardinality(Node(graph, h).parents) <= 1
          /\ Cardinality(Node(graph, h).children) <= 1
    /\ {h \in Keys(graph) : Node(graph, h).children = {}} = TipSet

\* the number of commits of the chain headed by h
ChainLength(h) == 1 + Cardinality(AncestorsIn(graph, {h}, Len(graph)))

Min(a, b) == IF a <= b THEN a ELSE b

\* C5 as stated: two disjoint chains are printed with exactly one marker block.
C5_ExactlyOneMarker ==
    pc = "done" /\ TwoChains => MarkerCount = 1

\* C5 as amended: with m commits in the chain of the tip listed first and n in
\* the other, the commits of both chains are all printed, and the output holds
\* 2*min(m,n) - 1 marker blocks when m <= n and 2*n when m > n; it holds
\* exactly one marker block exactly when the first chain is a single commit.
C5_MarkersOfTwoChains ==
    pc = "done" /\ TwoChains =>
        LET m == ChainLength(branches[1][2])
            n == ChainLength(branches[2][2])
        IN  /\ Range(sorted_commits) = Keys(graph)
            /\ Len(CommitLineIndices) = m + n
            /\ MarkerCount = 2 * Min(m, n) - (IF m <= n THEN 1 ELSE 0)
            /\ MarkerCount = 1 <=> m = 1

\* two chains printed, the one listed first having two commits
C5_Witness ==
    /\ pc = "done"
    /\ TwoChains
    /\ ChainLength(branches[1][2]) = 2
    /\ MarkerCount = 2

----------------------------------------------------------------------------
(* C6 *)

\* the hashes named by a line that begins with "parent "
ParentHeaderHashes == UNION {ParentLinks(h) : h \in DOMAIN objects}

\* C6: only the tips and the hashes named by lines that begin with "parent "
\* ever become nodes, ends of edges or queue entries of the builder.
C6_OnlyParentHeaders ==
    pc \in {"build", "sort", "print", "done", "crashed"} =>
        /\ Keys(graph) \subseteq TipSet \cup ParentHeaderHashes
        /\ \A h \in Keys(graph) :
              Node(graph, h).parents \cup Node(graph, h).children
                  \subseteq TipSet \cup ParentHeaderHashes
        /\ pc = "build" => Range(branch_tips) \subseteq TipSet \cup ParentHeaderHashes

----------------------------------------------------------------------------
(* C7 *)

\* C7: when no repository is found the run ends without an exception and
\* without reaching get_branches, build_commit_graph, sort or print_commits.
C7_NoRepoNoCrash ==
    find_git_repo(cwd, git_dirs) = -1 => pc \in {"start", "done"} /\ error = ""

----------------------------------------------------------------------------
(* C8 *)

RECURSIVE SpacedNames(_)
\* each name preceded by one space
SpacedNames(names) ==
    IF names = <<>> THEN <<>> ELSE <<" ">> \o names[1] \o SpacedNames(Tail(names))

\* the names of the branches that map to hash h
BranchesAt(h) == {branches[i][1] : i \in {j \in 1..Len(branches) : branches[j][2] = h}}

\* C8: the line of every printed commit, the first included, is its hash
\* followed by the names of exactly the branches that map to it, ascending,
\* each preceded by one space.
C8_BranchNamesSorted ==
    Printing =>
        LET idx == CommitLineIndices
        IN  /\ Len(idx) = pos
            /\ \A k \in 1..pos :
                  \E names \in Orders(BranchesAt(sorted_commits[k])) :
                      /\ \A i, j \in 1..Len(names) : i < j => StrLess(names[i], names[j])
                      /\ output[idx[k]] = sorted_commits[k] \o SpacedNames(names)

\* the second commit printed carries two branches that the branch map lists in
\* descending order, the first commit carries one
C8_Witness ==
    /\ pc = "done"
    /\ pos = 2
    /\ AssocBranches(sorted_commits[1], branches) = << <<"a", "b">> >>
    /\ AssocBranches(sorted_commits[2], branches) = << <<"b">>, <<"a">> >>
    /\ output[2] = sorted_commits[2] \o <<" ", "a", " ", "b">>

----------------------------------------------------------------------------
(* C9 *)

\* the graph of this invocation has the nodes and the edges of the previous one
SameNodesAndEdges == Range(graph) = Range(prev_graph)

\* C9 as stated: a second sort of a graph with the same nodes and edges yields
\* the same sequence, whatever the order of the tips.
C9_SameOrderWhateverTips ==
    run >= 2 /\ SortDone /\ SameNodesAndEdges => sorted_commits = prev_sorted

\* C9 as amended: a second sort of a graph with the same nodes and edges,
\* inserted into the mapping in the same order, yields the same sequence.
C9_SameOrderSameInsertion ==
    run >= 2 /\ SortDone /\ graph = prev_graph => sorted_commits = prev_sorted

\* the same graph was sorted twice, and it holds a merge whose two parents
\* became ready together
C9_Witness ==
    /\ run >= 2
    /\ SortDone
    /\ graph = prev_graph
    /\ Len(sorted_commits) = 3
    /\ \E m \in Keys(graph) :
          /\ Cardinality(Node(graph, m).parents) = 2
          /\ \A p \in Node(graph, m).parents : Node(graph, p).children = {m}

----------------------------------------------------------------------------
(* C10 *)

Unreadable(h) == h \notin DOMAIN objects \/ ~objects[h].utf8

\* C10: once the builder has come to a hash whose object cannot be read or
\* decoded, the run has ended with the error and nothing has been printed.
C10_NoPartialOutput ==
    (\E h \in visited : Unreadable(h)) =>
        /\ pc = "crashed"
        /\ error \in {"OSError", "UnicodeDecodeError"}
        /\ output = <<>>

\* the run ended at an unreadable parent of a tip
C10_Witness ==
    /\ pc = "crashed"
    /\ output = <<>>
    /\ \E h \in visited \ TipSet : Unreadable(h) /\ Node(graph, h).children # {}

----------------------------------------------------------------------------
(* C11 *)

\* C11: a second call of build_commit_graph with the same tip collection
\* returns a graph with the nodes and the edges of the first.
C11_SecondBuildSameGraph ==
    calls >= 2 /\ BuildDone => Range(graph) = Range(earlier_graph)

----------------------------------------------------------------------------
(* C12 *)

\* C12: during one call of build_commit_graph no hash is passed to read_commit
\* twice.
C12_ReadAtMostOnce == NoDuplicates(reads)

\* a hash that stood twice in the work queue has been read, and so has a parent
C12_Witness ==
    /\ BuildDone
    /\ Len(branches) = 2
    /\ branches[1][2] = branches[2][2]
    /\ Len(reads) = 2

----------------------------------------------------------------------------
(* C13 *)

\* C13: no step of sort or of print_commits changes the graph (its keys and
\* every node's parents and children) or the branch map.
C13_SortAndPrintReadOnly ==
    [][(pc = "sort" \/ pc = "print") => (graph' = graph /\ branches' = branches)]_vars

\* sort and print_commits have run over a graph with an edge; the child
\* counter of a parent went down to zero while its children set stayed
C13_Witness ==
    /\ pc = "done"
    /\ Len(output) >= 2
    /\ branches # <<>>
    /\ \E h \in Keys(graph) :
         Node(graph, h).children # {} /\ hash_to_num_children[h] = 0

----------------------------------------------------------------------------
(* C14 *)

\* the hashes of names written one after the other, a space between two
SpaceSeparated(names) == IF names = <<>> THEN <<>> ELSE Tail(SpacedNames(names))

\* C14: whatever stands between two consecutive commit lines is three lines:
\* the hashes of exactly the parents of the commit of the first line, in some
\* order and space-separated, followed by "=" (that is "=" alone for a root);
\* an empty line; "=" followed by the hashes of exactly the children of the
\* commit of the second line, in some order and space-separated.
C14_MarkerBlockLines ==
    Printing =>
        LET idx == CommitLineIndices
        IN  \A k \in 1..(Len(idx) - 1) :
               idx[k + 1] # idx[k] + 1 =>
                  /\ idx[k + 1] = idx[k] + 4
                  /\ k + 1 <= Len(sorted_commits)
                  /\ \E ps \in Orders(Node(graph, sorted_commits[k]).parents),
                        cs \in Orders(Node(graph, sorted_commits[k + 1]).children) :
                        /\ output[idx[k] + 1] = SpaceSeparated(ps) \o <<"=">>
                        /\ output[idx[k] + 2] = <<>>
                        /\ output[idx[k] + 3] = <<"=">> \o SpaceSeparated(cs)

\* a marker block after a root names the two children of the next commit
C14_Witness ==
    /\ pc = "done"
    /\ \E k \in 1..(Len(sorted_commits) - 1) :
          /\ Node(graph, sorted_commits[k]).parents = {}
          /\ Cardinality(Node(graph, sorted_commits[k + 1]).children) = 2
          /\ \E i \in 1..Len(output) :
                /\ StartsWith(output[i], sorted_commits[k])
                /\ output[i + 1] = <<"=">>
                /\ MarkerBlockAfter(i)
                /\ Len(output[i + 3]) = 4

----------------------------------------------------------------------------
(* C15 *)

\* the nodes of g that lie on a cycle of parent edges
OnCycle(g) == {h \in Keys(g) : h \in AncestorsIn(g, {h}, Len(g))}

\* the nodes of g that lie on a cycle or have a descendant on one
Blocked(g) == OnCycle(g) \cup AncestorsIn(g, OnCycle(g), Len(g))

\* C15: sort returns on every graph, cyclic ones included: while it runs a
\* step is enabled, and a step that does not return lengthens the result, which
\* never holds a hash twice nor more hashes than the graph has nodes.  On its
\* return the nodes missing from the result are the nodes on a cycle or with a
\* descendant on a cycle, and every other node is in it once, after all of its
\* children.
C15_SortOnCycles ==
    [][/\ pc' = "sort" => (ENABLED (SortStep \/ SortReturn))'
       /\ (pc = "sort" /\ pc' = "sort") =>
            /\ Len(sorted_commits') = Len(sorted_commits) + 1
            /\ NoDuplicates(sorted_commits')
            /\ Range(sorted_commits') \subseteq Keys(graph)
       /\ (pc = "sort" /\ pc' # "sort") =>
            /\ SortDone'
            /\ Keys(graph) \ Range(sorted_commits') = Blocked(graph)
            /\ NoDuplicates(sorted_commits')
            /\ \A i \in 1..Len(sorted_commits') :
                 \A c \in Node(graph, sorted_commits'[i]).children :
                    \E j \in 1..(i - 1) : sorted_commits'[j] = c]_vars

\* sort has returned on a cyclic graph, leaving out a node that is on no cycle
\* and emitting another
C15_Witness ==
    /\ SortDone
    /\ sorted_commits # <<>>
    /\ OnCycle(graph) # {}
    /\ Blocked(graph) # OnCycle(graph)

----------------------------------------------------------------------------
(* C16 *)

\* C16: in a repository without branches the invocation raises no error, and
\* when it has ended the graph, the sorted sequence and the output are empty.
C16_EmptyTipsRunToEnd ==
    (git_dirs # {} /\ find_git_repo(cwd, git_dirs) # -1 /\ DOMAIN refs = {}) =>
        /\ pc # "crashed"
        /\ pc = "done" => graph = <<>> /\ sorted_commits = <<>> /\ output = <<>>

----------------------------------------------------------------------------
(* C17 *)

\* the list(branches.values()) that topo_order_commits passes to build_commit_graph
TipsOfBranches == [i \in 1..Len(branches) |-> branches[i][2]]

\* C17: when build_commit_graph has returned, the caller's tip collection holds
\* what it held at the call.
C17_TipsUnchanged == BuildDone => branch_tips = TipsOfBranches

====
